---- MODULE Spec2Model ----
(***************************************************************************)
(* State-machine model of the in-memory state engine of src/main.py:       *)
(* the ConversationMemory session store (history, order context, sweep),   *)
(* the ResponseCache (ttl, LRU order), the HTTP handlers that expose the   *)
(* store and the POST /chat handler, which uses both and is suspended at   *)
(* its upstream call.                                                      *)
(*                                                                         *)
(* Python values are modelled as follows: a dict is a TLA+ record (a       *)
(* function from key strings), a list is a sequence, None is the string    *)
(* NoneVal, time.time() is the clock variable now (one handler runs at one *)
(* instant).  Methods of ConversationMemory are operators from the store   *)
(* to the store (and the returned value); handlers are actions.            *)
(***************************************************************************)
EXTENDS Integers, Sequences, FiniteSets, TLC

----------------------------------------------------------------------------
(* Bounds of the model *)

\* number of clock advances explored
MaxTicks == 1
\* number of clock advances explored where the sweep's times are told apart
MaxSweepTicks == 3
\* seconds by which one clock advance moves time.time()
TimeStep == 90000
\* most order items held, over the sessions alive
MaxOrderLen == 2
\* most messages appended, over the sessions alive, since they were created
MaxAppends == 3
\* the max_messages_per_conversation the store is constructed with (the
\* constructor's parameter; main.py takes its default, 50)
MaxMessagesCap == 2
\* the max_conversations the store is constructed with (the constructor's
\* parameter; main.py takes its default, 1000)
MaxConversations == 1
\* the max_size response_cache is constructed with (the constructor's
\* parameter; main.py takes its default, 1000)
MaxCacheSize == 2
\* number of clock advances explored where the cache's times are told
\* apart, each advance half a ttl
MaxCacheTicks == 2
\* most messages on record, over the sessions alive, when a chat request
\* is accepted for exploration (a request appends two)
MaxChatAppends == 4

----------------------------------------------------------------------------
(* Program constants *)

\* self.cleanup_interval = 3600
cleanup_interval == 3600
\* cutoff_time = current_time - (24 * 3600)
cleanup_cutoff == 24 * 3600
\* ResponseCache(ttl = 3600)
ttl == 3600

----------------------------------------------------------------------------
(* Input universes *)

SessionIds == {"s1", "s2"}
Roles == {"user", "assistant"}
Contents == {"hi", "ok"}
NoneVal == "None"
EmptyDict == [k \in {} |-> 0]

\* order items as the /order/add endpoint receives them (Dict[str, Any]):
\* price and quantity are optional keys
Items ==
    { [name |-> "pizza", price |-> 3, quantity |-> 2],
      [name |-> "wings", price |-> 2, quantity |-> 1],
      [name |-> "water"] }

\* the one item the specification of all operations adds
PricedItems == { [name |-> "pizza", price |-> 3, quantity |-> 2] }

\* bodies of POST /order/update (Dict[str, Any]): any subset of keys
Updates ==
    { [customer_name |-> "Ann"],
      [delivery_address |-> "Elm St", order_total |-> 9] }

\* item_index: int
Indices == (0 - 1) .. MaxOrderLen

TimeSteps == {TimeStep}

\* ChatRequest.prompt
Prompts == {"hi", "ok"}
\* ChatRequest.model, two of the keys of FREE_MODELS
Models == {"qwen/qwen3-coder:free", "meta-llama/llama-2-7b-chat"}
\* ChatRequest.max_tokens (80 is the default)
MaxTokens == {40, 80}
\* ChatRequest.temperature, in tenths (0.7 is the default)
Temperatures == {7}
\* prompt and model strings as ResponseCache's methods accept them (str):
\* with and without the ":" of the key format, in either case of letters
KeyPrompts == {"a", "A", "a:b"}
KeyModels == {"c", "b:c"}
\* the texts a response carries; the empty string is one of them
Responses == {"r1", "r2", ""}

\* FREE_MODELS
FREE_MODELS ==
    {"qwen/qwen3-coder:free", "meta-llama/llama-2-7b-chat",
     "google/palm-2-chat-bison", "anthropic/claude-instant-v1"}

\* what `await client.post(...)` can come back with: a 200 with a choice, a
\* 200 without choices, another status, an httpx.TimeoutException
UpstreamReplies ==
    { [kind |-> "ok", content |-> "r1", total_tokens |-> 12],
      [kind |-> "ok", content |-> "", total_tokens |-> 3],
      [kind |-> "nochoices"],
      [kind |-> "error", status_code |-> 429],
      [kind |-> "timeout"] }

\* the callers whose POST /chat requests can be in progress at once
Clients == {"c1", "c2"}
\* a client with no request in progress
Idle == [state |-> "idle"]

----------------------------------------------------------------------------
VARIABLES
    conversations,   \* self.conversations: session id -> conversation dict
    last_cleanup,    \* self.last_cleanup
    max_messages_per_conversation,  \* self.max_messages_per_conversation
    now,             \* time.time()
    request,         \* the call served last
    response,        \* what it returned (or the HTTPException it raised)
    appended,        \* history: the messages appended to each session since
                     \* it was created, in order
    cache,           \* response_cache.cache: the OrderedDict as the sequence
                     \* of its items, [key, response, timestamp], first
                     \* inserted (or moved to the end) last
    used,            \* history: the cached keys in the order of their last
                     \* set or get hit, the most recent last
    dropped,         \* history: the keys the last cache call removed
    replaced,        \* history: the last cache call was a set of a key
                     \* that was cached
    awaiting,        \* the chat_with_llm calls suspended at
                     \* `await client.post(...)`, by client
    arrivals         \* history: the clients of the suspended calls in the
                     \* order in which their requests arrived, each with
                     \* whether a request that arrived later has appended
                     \* its turn to the same session since

vars == <<conversations, last_cleanup, max_messages_per_conversation, now,
          request, response, appended, cache, used, dropped, replaced,
          awaiting, arrivals>>

----------------------------------------------------------------------------
(* Python helpers *)

Min(a, b) == IF a < b THEN a ELSE b
Max(a, b) == IF a > b THEN a ELSE b

\* seq[-n:] : for n > 0 the last n elements (all of them when n >= len);
\* for n = 0 the slice is seq[0:], the whole list
PySliceLast(seq, n) ==
    LET start == IF 0 - n < 0 THEN Max(Len(seq) - n, 0) ELSE Min(0 - n, Len(seq))
    IN  SubSeq(seq, start + 1, Len(seq))

\* the 0-based position list.pop(i) and list[i] address: a negative i
\* counts from the end (-len <= i < len)
PyIndex(seq, i) == IF i < 0 THEN i + Len(seq) ELSE i

\* list.pop(i): the item popped, and the list it leaves
PyPopped(seq, i) == seq[PyIndex(seq, i) + 1]
PyPop(seq, i) ==
    SubSeq(seq, 1, PyIndex(seq, i)) \o SubSeq(seq, PyIndex(seq, i) + 2, Len(seq))

\* dict.update(updates)
DictUpdate(d, updates) ==
    [k \in DOMAIN d \cup DOMAIN updates |->
        IF k \in DOMAIN updates THEN updates[k] ELSE d[k]]

\* item.get('price', 0)
ItemPrice(item) == IF "price" \in DOMAIN item THEN item.price ELSE 0

\* sum(item.get('price', 0) for item in current_order)
RECURSIVE SumPrices(_)
SumPrices(order) ==
    IF order = <<>> THEN 0
    ELSE ItemPrice(Head(order)) + SumPrices(Tail(order))

\* None where a dict is expected (the value remove_from_order returns when
\* it removes nothing); NoneVal is None where a string is expected
NoneDict == [None |-> TRUE]

\* truthiness of a dict: `if not d`
Truthy(d) == d # EmptyDict

----------------------------------------------------------------------------
(* ConversationMemory: each method maps the store to the store it leaves   *)
(* and the value it returns.  convs is self.conversations, t is the value  *)
(* of time.time() during the call.                                         *)

\* the dict add_message stores for a session it has not seen
NewConversation(t, metadata) ==
    [ messages |-> <<>>,
      created_at |-> t,
      last_activity |-> t,
      metadata |-> metadata,
      order_context |->
        [ customer_name |-> NoneVal,
          phone_number |-> NoneVal,
          delivery_address |-> NoneVal,
          current_order |-> <<>>,
          order_total |-> 0,
          payment_method |-> NoneVal,
          delivery_preference |-> NoneVal,
          special_instructions |-> NoneVal ] ]

\* convs with convs[s] = c (s added if absent)
Store(convs, s, c) ==
    [x \in DOMAIN convs \cup {s} |-> IF x = s THEN c ELSE convs[x]]

\* del convs[s]
Delete(convs, S) ==
    [x \in DOMAIN convs \ S |-> convs[x]]

\* a sweep that also deletes the session inactive for exactly the cutoff
cleanup_old_conversations_Inclusive(convs, lc, t) ==
    IF t - lc < cleanup_interval
    THEN [conversations |-> convs, last_cleanup |-> lc]
    ELSE LET cutoff_time == t - cleanup_cutoff
             sessions_to_remove ==
                 {x \in DOMAIN convs : convs[x].last_activity <= cutoff_time}
         IN  [conversations |-> Delete(convs, sessions_to_remove),
              last_cleanup |-> t]

\* a sweep that scans on every invocation
cleanup_old_conversations_Ungated(convs, lc, t) ==
    LET cutoff_time == t - cleanup_cutoff
        sessions_to_remove ==
            {x \in DOMAIN convs : convs[x].last_activity < cutoff_time}
    IN  [conversations |-> Delete(convs, sessions_to_remove),
         last_cleanup |-> IF t - lc < cleanup_interval THEN lc ELSE t]

\* ConversationMemory._cleanup_old_conversations
cleanup_old_conversations(convs, lc, t) ==
    IF t - lc < cleanup_interval
    THEN [conversations |-> convs, last_cleanup |-> lc]
    ELSE LET cutoff_time == t - cleanup_cutoff
             sessions_to_remove ==
                 {x \in DOMAIN convs : convs[x].last_activity < cutoff_time}
         IN  [conversations |-> Delete(convs, sessions_to_remove),
              last_cleanup |-> t]

\* a trim that keeps the oldest messages, messages[:cap], not the newest
TrimMessages_KeepOldest(messages, cap) ==
    IF Len(messages) > cap THEN SubSeq(messages, 1, cap) ELSE messages

\* self.max_conversations: stored by the constructor, read by no method
max_conversations == MaxConversations

\* the trim of add_message: lines 64-65
TrimMessages(messages, cap) ==
    IF Len(messages) > cap THEN PySliceLast(messages, cap) ELSE messages

\* an append that enforces max_conversations as a cap: once more sessions
\* than that are stored, the one least recently active is evicted
add_message_Capped(convs, lc, cap, s, role, content, t) ==
    LET created == IF s \in DOMAIN convs THEN convs
                   ELSE Store(convs, s, NewConversation(t, EmptyDict))
        message == [role |-> role, content |-> content, timestamp |-> t]
        conversation ==
            [created[s] EXCEPT
                !.last_activity = t,
                !.messages = TrimMessages(Append(@, message), cap)]
        stored == Store(created, s, conversation)
        oldest == CHOOSE x \in DOMAIN stored \ {s} :
                     \A y \in DOMAIN stored \ {s} :
                         stored[x].last_activity <= stored[y].last_activity
        capped == IF Cardinality(DOMAIN stored) > max_conversations
                  THEN Delete(stored, {oldest})
                  ELSE stored
    IN  cleanup_old_conversations(capped, lc, t)

\* an append that sets last_activity when it creates the session only
add_message_StaleActivity(convs, lc, cap, s, role, content, t) ==
    LET created == IF s \in DOMAIN convs THEN convs
                   ELSE Store(convs, s, NewConversation(t, EmptyDict))
        message == [role |-> role, content |-> content, timestamp |-> t]
        conversation ==
            [created[s] EXCEPT
                !.messages = TrimMessages(Append(@, message), cap)]
    IN  cleanup_old_conversations(Store(created, s, conversation), lc, t)

\* ConversationMemory.add_message (metadata is never passed: {})
\* an append that stamps the session anew: created_at is set on every
\* append, not only when the session is created
add_message_Restamped(convs, lc, cap, s, role, content, t) ==
    LET created == IF s \in DOMAIN convs THEN convs
                   ELSE Store(convs, s, NewConversation(t, EmptyDict))
        message == [role |-> role, content |-> content, timestamp |-> t]
        conversation ==
            [created[s] EXCEPT
                !.created_at = t,
                !.last_activity = t,
                !.messages = TrimMessages(Append(@, message), cap)]
    IN  cleanup_old_conversations(Store(created, s, conversation), lc, t)

add_message(convs, lc, cap, s, role, content, t) ==
    LET created == IF s \in DOMAIN convs THEN convs
                   ELSE Store(convs, s, NewConversation(t, EmptyDict))
        message == [role |-> role, content |-> content, timestamp |-> t]
        conversation ==
            [created[s] EXCEPT
                !.last_activity = t,
                !.messages = TrimMessages(Append(@, message), cap)]
    IN  cleanup_old_conversations(Store(created, s, conversation), lc, t)

\* a read that creates the session it does not find (as a defaultdict or
\* setdefault would)
get_conversation_Creating(convs, s, t) ==
    LET created == IF s \in DOMAIN convs THEN convs
                   ELSE Store(convs, s, NewConversation(t, EmptyDict))
    IN  [conversations |-> [created EXCEPT ![s].last_activity = t],
         result |-> created[s].messages]

\* ConversationMemory.get_conversation
get_conversation(convs, s, t) ==
    IF s \in DOMAIN convs
    THEN [conversations |-> [convs EXCEPT ![s].last_activity = t],
          result |-> convs[s].messages]
    ELSE [conversations |-> convs, result |-> <<>>]

\* a lookup that takes a session with an empty current_order for a session
\* without an order context
CM_get_order_context_OnlyWithOrder(convs, s) ==
    IF s \in DOMAIN convs /\ convs[s].order_context.current_order # <<>>
    THEN convs[s].order_context
    ELSE EmptyDict

\* ConversationMemory.get_order_context
CM_get_order_context(convs, s) ==
    IF s \in DOMAIN convs THEN convs[s].order_context ELSE EmptyDict

\* an update that builds the context anew from the defaults and the input,
\* so that fields absent from the input fall back to None
CM_update_order_context_FromDefaults(convs, s, updates, t) ==
    IF s \in DOMAIN convs
    THEN [convs EXCEPT
            ![s].order_context =
                DictUpdate(NewConversation(t, EmptyDict).order_context, updates),
            ![s].last_activity = t]
    ELSE convs

\* ConversationMemory.update_order_context
\* an update that sweeps as add_message does: after the write, every
\* session inactive for longer than the cutoff is deleted
CM_update_order_context_Sweeping(convs, s, updates, t) ==
    LET updated == IF s \in DOMAIN convs
                   THEN [convs EXCEPT
                           ![s].order_context = DictUpdate(@, updates),
                           ![s].last_activity = t]
                   ELSE convs
    IN  Delete(updated,
               {x \in DOMAIN updated :
                   updated[x].last_activity < t - cleanup_cutoff})

CM_update_order_context(convs, s, updates, t) ==
    IF s \in DOMAIN convs
    THEN [convs EXCEPT
            ![s].order_context = DictUpdate(@, updates),
            ![s].last_activity = t]
    ELSE convs

\* an add whose order list is one list shared by every session
add_to_order_SharedOrder(convs, s, item, t) ==
    IF s \in DOMAIN convs
    THEN [x \in DOMAIN convs |->
            LET current_order == Append(convs[x].order_context.current_order, item)
            IN  [convs[x] EXCEPT
                   !.order_context =
                       DictUpdate(@, [current_order |-> current_order,
                                      order_total |-> SumPrices(current_order)]),
                   !.last_activity = IF x = s THEN t ELSE @]]
    ELSE convs

\* ConversationMemory.add_to_order
add_to_order(convs, s, item, t) ==
    IF s \in DOMAIN convs
    THEN LET current_order == Append(convs[s].order_context.current_order, item)
         IN  [convs EXCEPT
                ![s].order_context =
                    DictUpdate(@, [current_order |-> current_order,
                                   order_total |-> SumPrices(current_order)]),
                ![s].last_activity = t]
    ELSE convs

\* a remove that pops the last item, list.pop(), whatever the index
remove_from_order_PopLast(convs, s, item_index, t) ==
    IF s \in DOMAIN convs
    THEN LET current_order == convs[s].order_context.current_order
         IN  IF 0 <= item_index /\ item_index < Len(current_order)
             THEN LET popped == SubSeq(current_order, 1, Len(current_order) - 1)
                  IN  [conversations |->
                         [convs EXCEPT
                            ![s].order_context =
                                DictUpdate(@, [current_order |-> popped,
                                               order_total |-> SumPrices(popped)]),
                            ![s].last_activity = t],
                       result |-> current_order[Len(current_order)]]
             ELSE [conversations |-> convs, result |-> NoneDict]
    ELSE [conversations |-> convs, result |-> NoneDict]

\* a remove that pops the item and leaves order_total as it was
remove_from_order_StaleTotal(convs, s, item_index, t) ==
    IF s \in DOMAIN convs
    THEN LET current_order == convs[s].order_context.current_order
         IN  IF 0 <= item_index /\ item_index < Len(current_order)
             THEN [conversations |->
                     [convs EXCEPT
                        ![s].order_context.current_order =
                            PyPop(current_order, item_index),
                        ![s].last_activity = t],
                   result |-> PyPopped(current_order, item_index)]
             ELSE [conversations |-> convs, result |-> NoneDict]
    ELSE [conversations |-> convs, result |-> NoneDict]

\* a remove whose range check lacks `0 <=`: a negative index is handed to
\* list.pop, which counts it from the end
remove_from_order_NoLowerBound(convs, s, item_index, t) ==
    IF s \in DOMAIN convs
    THEN LET current_order == convs[s].order_context.current_order
         IN  IF 0 - Len(current_order) <= item_index
                /\ item_index < Len(current_order)
             THEN LET popped == PyPop(current_order, item_index)
                  IN  [conversations |->
                         [convs EXCEPT
                            ![s].order_context =
                                DictUpdate(@, [current_order |-> popped,
                                               order_total |-> SumPrices(popped)]),
                            ![s].last_activity = t],
                       result |-> PyPopped(current_order, item_index)]
             ELSE [conversations |-> convs, result |-> NoneDict]
    ELSE [conversations |-> convs, result |-> NoneDict]

\* ConversationMemory.remove_from_order
remove_from_order(convs, s, item_index, t) ==
    IF s \in DOMAIN convs
    THEN LET current_order == convs[s].order_context.current_order
         IN  IF 0 <= item_index /\ item_index < Len(current_order)
             THEN LET popped == PyPop(current_order, item_index)
                  IN  [conversations |->
                         [convs EXCEPT
                            ![s].order_context =
                                DictUpdate(@, [current_order |-> popped,
                                               order_total |-> SumPrices(popped)]),
                            ![s].last_activity = t],
                       result |-> PyPopped(current_order, item_index)]
             ELSE [conversations |-> convs, result |-> NoneDict]
    ELSE [conversations |-> convs, result |-> NoneDict]

\* a clear that puts the whole order context back to its initial values
CM_clear_order_ResetContext(convs, s, t) ==
    IF s \in DOMAIN convs
    THEN [convs EXCEPT
            ![s].order_context = NewConversation(t, EmptyDict).order_context,
            ![s].last_activity = t]
    ELSE convs

\* ConversationMemory.clear_order
CM_clear_order(convs, s, t) ==
    IF s \in DOMAIN convs
    THEN [convs EXCEPT
            ![s].order_context =
                DictUpdate(@, [current_order |-> <<>>, order_total |-> 0]),
            ![s].last_activity = t]
    ELSE convs

\* ConversationMemory.get_session_summary
CM_get_session_summary(convs, s) ==
    IF s \in DOMAIN convs
    THEN [ session_id |-> s,
           created_at |-> convs[s].created_at,
           last_activity |-> convs[s].last_activity,
           message_count |-> Len(convs[s].messages),
           order_context |-> convs[s].order_context,
           metadata |-> convs[s].metadata ]
    ELSE EmptyDict

\* a delete that empties the history and keeps the session
clear_conversation_KeepSession(convs, s) ==
    IF s \in DOMAIN convs THEN [convs EXCEPT ![s].messages = <<>>] ELSE convs

\* ConversationMemory.clear_conversation
clear_conversation(convs, s) ==
    IF s \in DOMAIN convs THEN Delete(convs, {s}) ELSE convs

----------------------------------------------------------------------------
(* Requests and responses *)

\* a handler's JSON body, and the HTTPException a handler raises
Ok(body) == [status |-> 200, body |-> body]
HTTPException(status_code, detail) == [status |-> status_code, detail |-> detail]
\* a direct call of a method that returns None
ReturnedNone == [status |-> 0]

MaxTime == MaxTicks * TimeStep

\* the history of appends after a call that leaves the store convs:
\* a session that is gone has no history
History(convs, hist) ==
    [x \in SessionIds |-> IF x \in DOMAIN convs THEN hist[x] ELSE <<>>]

\* the clock readings of the sweep runs: at most MaxSweepTicks advances, each
\* by half the sweep interval or by the inactivity cutoff
SweepSteps == {cleanup_interval \div 2, cleanup_cutoff}
SweepTimes ==
    {a * (cleanup_interval \div 2) + b * cleanup_cutoff :
        <<a, b>> \in {p \in (0 .. MaxSweepTicks) \X (0 .. MaxSweepTicks) :
                        p[1] + p[2] <= MaxSweepTicks}}

\* the sizes the bounds cap
RECURSIVE SumOver(_, _)
SumOver(S, f) ==
    IF S = {} THEN 0
    ELSE LET x == CHOOSE y \in S : TRUE IN f[x] + SumOver(S \ {x}, f)

TotalAppended == SumOver(SessionIds, [x \in SessionIds |-> Len(appended[x])])
TotalOrdered ==
    SumOver(DOMAIN conversations,
            [x \in DOMAIN conversations |->
                Len(conversations[x].order_context.current_order)])

----------------------------------------------------------------------------
(* ResponseCache *)

\* self.max_size
max_size == MaxCacheSize

\* the characters of a string, as far as the key format can tell them
\* apart: the separator ":" and the runs between separators
Text(str) ==
    CASE str = "qwen/qwen3-coder:free" -> <<"qwen/qwen3-coder", ":", "free">>
      [] str = "a:b" -> <<"a", ":", "b">>
      [] str = "b:c" -> <<"b", ":", "c">>
      [] OTHER -> <<str>>

\* str() of an int and of a float, as the f-string formats them
IntStr(n) == CASE n = 40 -> "40" [] n = 80 -> "80"
FloatStr(tenths) == CASE tenths = 7 -> "0.7" [] tenths = 10 -> "1.0"

\* hashlib.md5(...).hexdigest(): one digest per text
md5_hexdigest(key_data) == [md5 |-> key_data]

\* ResponseCache._generate_key
generate_key(prompt, model, max_tokens, temperature) ==
    LET key_data == Text(prompt) \o <<":">> \o Text(model) \o <<":">> \o
                    Text(IntStr(max_tokens)) \o <<":">> \o
                    Text(FloatStr(temperature))
    IN  md5_hexdigest(key_data)

\* OrderedDict: `key in d`, d[key], del d[key], d[key] = item on a new key,
\* d.move_to_end(key), d.popitem(last=False)
KeySet(d) == {d[i].key : i \in 1 .. Len(d)}
HasKey(d, key) == \E i \in 1 .. Len(d) : d[i].key = key
ItemOf(d, key) == d[CHOOSE i \in 1 .. Len(d) : d[i].key = key]
DelKey(d, key) == SelectSeq(d, LAMBDA e : e.key # key)
MoveToEnd(d, key) == Append(DelKey(d, key), ItemOf(d, key))
PopFirst(d) == Tail(d)

\* a get that serves the entry while its age is at most ttl
RC_get_ServingAtTtl(c, prompt, model, max_tokens, temperature, t) ==
    LET key == generate_key(prompt, model, max_tokens, temperature)
    IN  IF HasKey(c, key)
        THEN LET cached_item == ItemOf(c, key)
             IN  IF t - cached_item.timestamp <= ttl
                 THEN [cache |-> MoveToEnd(c, key),
                       result |-> cached_item.response]
                 ELSE [cache |-> DelKey(c, key), result |-> NoneVal]
        ELSE [cache |-> c, result |-> NoneVal]

\* a get that returns the entry where it is, without move_to_end
RC_get_NoMove(c, prompt, model, max_tokens, temperature, t) ==
    LET key == generate_key(prompt, model, max_tokens, temperature)
    IN  IF HasKey(c, key)
        THEN LET cached_item == ItemOf(c, key)
             IN  IF t - cached_item.timestamp < ttl
                 THEN [cache |-> c, result |-> cached_item.response]
                 ELSE [cache |-> DelKey(c, key), result |-> NoneVal]
        ELSE [cache |-> c, result |-> NoneVal]

\* a get whose hit also renews the timestamp of the entry (a sliding ttl)
RC_get_Renewing(c, prompt, model, max_tokens, temperature, t) ==
    LET key == generate_key(prompt, model, max_tokens, temperature)
    IN  IF HasKey(c, key)
        THEN LET cached_item == ItemOf(c, key)
             IN  IF t - cached_item.timestamp < ttl
                 THEN [cache |-> Append(DelKey(c, key),
                                        [cached_item EXCEPT !.timestamp = t]),
                       result |-> cached_item.response]
                 ELSE [cache |-> DelKey(c, key), result |-> NoneVal]
        ELSE [cache |-> c, result |-> NoneVal]

\* ResponseCache.get
RC_get(c, prompt, model, max_tokens, temperature, t) ==
    LET key == generate_key(prompt, model, max_tokens, temperature)
    IN  IF HasKey(c, key)
        THEN LET cached_item == ItemOf(c, key)
             IN  IF t - cached_item.timestamp < ttl
                 THEN [cache |-> MoveToEnd(c, key),
                       result |-> cached_item.response]
                 ELSE [cache |-> DelKey(c, key), result |-> NoneVal]
        ELSE [cache |-> c, result |-> NoneVal]

\* a set that inserts without evicting
RC_set_Unbounded(c, prompt, model, max_tokens, temperature, resp, t) ==
    LET key == generate_key(prompt, model, max_tokens, temperature)
        removed == IF HasKey(c, key) THEN DelKey(c, key) ELSE c
    IN  Append(removed, [key |-> key, response |-> resp, timestamp |-> t])

\* a set whose eviction pops the newest item, popitem(last=True)
RC_set_PopLast(c, prompt, model, max_tokens, temperature, resp, t) ==
    LET key == generate_key(prompt, model, max_tokens, temperature)
        removed == IF HasKey(c, key) THEN DelKey(c, key) ELSE c
        added == Append(removed,
                        [key |-> key, response |-> resp, timestamp |-> t])
    IN  IF Len(added) > max_size
        THEN SubSeq(added, 1, Len(added) - 1)
        ELSE added

\* a set that overwrites an existing item where it is, as `d[key] = item`
\* does without the preceding del
RC_set_InPlace(c, prompt, model, max_tokens, temperature, resp, t) ==
    LET key == generate_key(prompt, model, max_tokens, temperature)
        item == [key |-> key, response |-> resp, timestamp |-> t]
        added == IF HasKey(c, key)
                 THEN [i \in 1 .. Len(c) |-> IF c[i].key = key THEN item ELSE c[i]]
                 ELSE Append(c, item)
    IN  IF Len(added) > max_size THEN PopFirst(added) ELSE added

\* a set that first purges the items that have expired
RC_set_PurgingExpired(c, prompt, model, max_tokens, temperature, resp, t) ==
    LET key == generate_key(prompt, model, max_tokens, temperature)
        fresh == SelectSeq(c, LAMBDA e : t - e.timestamp < ttl)
        removed == IF HasKey(fresh, key) THEN DelKey(fresh, key) ELSE fresh
        added == Append(removed,
                        [key |-> key, response |-> resp, timestamp |-> t])
    IN  IF Len(added) > max_size THEN PopFirst(added) ELSE added

\* ResponseCache.set
RC_set(c, prompt, model, max_tokens, temperature, resp, t) ==
    LET key == generate_key(prompt, model, max_tokens, temperature)
        removed == IF HasKey(c, key) THEN DelKey(c, key) ELSE c
        added == Append(removed,
                        [key |-> key, response |-> resp, timestamp |-> t])
    IN  IF Len(added) > max_size THEN PopFirst(added) ELSE added

\* the value a method returned to its caller
Returned(value) == [status |-> 0, result |-> value]

\* the clock readings of the cache runs: at most MaxCacheTicks advances of
\* half a ttl
CacheSteps == {ttl \div 2}
CacheTimes == {i * (ttl \div 2) : i \in 0 .. MaxCacheTicks}

\* the keys of `order` that are cached in c, k last
UsedAfter(order, c, k) ==
    SelectSeq(SelectSeq(order, LAMBDA x : x # k) \o <<k>>,
              LAMBDA x : HasKey(c, x))

----------------------------------------------------------------------------
(* Initial state: conversation_memory = ConversationMemory() at time 0 *)

Init ==
    /\ conversations = EmptyDict
    /\ last_cleanup = 0
    /\ max_messages_per_conversation = MaxMessagesCap
    /\ now = 0
    /\ request = [op |-> "init"]
    /\ response = ReturnedNone
    /\ appended = [x \in SessionIds |-> <<>>]
    /\ cache = <<>>
    /\ used = <<>>
    /\ dropped = {}
    /\ replaced = FALSE
    /\ awaiting = [c \in Clients |-> Idle]
    /\ arrivals = <<>>

\* ConversationMemory(max_messages_per_conversation = n) at time 0, for
\* every n from 0 up: the constructor stores whatever cap it is given
InitAnyCap ==
    /\ conversations = EmptyDict
    /\ last_cleanup = 0
    /\ max_messages_per_conversation \in 0 .. MaxMessagesCap
    /\ now = 0
    /\ request = [op |-> "init"]
    /\ response = ReturnedNone
    /\ appended = [x \in SessionIds |-> <<>>]
    /\ cache = <<>>
    /\ used = <<>>
    /\ dropped = {}
    /\ replaced = FALSE
    /\ awaiting = [c \in Clients |-> Idle]
    /\ arrivals = <<>>

----------------------------------------------------------------------------
(* Actions *)

\* time passes
Tick(d) ==
    /\ now + d <= MaxTime
    /\ now' = now + d
    /\ UNCHANGED <<conversations, last_cleanup, max_messages_per_conversation,
                   request, response, appended>>
    /\ UNCHANGED <<cache, used, dropped, replaced, awaiting, arrivals>>

\* time passes, to one of the clock readings in times
TickWithin(d, times) ==
    /\ now + d \in times
    /\ now' = now + d
    /\ UNCHANGED <<conversations, last_cleanup, max_messages_per_conversation,
                   request, response, appended>>
    /\ UNCHANGED <<cache, used, dropped, replaced, awaiting, arrivals>>

\* AppendMessage: conversation_memory.add_message(session_id, role, content),
\* explored while fewer than limit appends are on record
AppendMessage(s, role, content, limit) ==
    /\ TotalAppended < limit
    /\ LET r == add_message(conversations, last_cleanup,
                            max_messages_per_conversation, s, role, content, now)
           message == [role |-> role, content |-> content, timestamp |-> now]
       IN  /\ conversations' = r.conversations
           /\ last_cleanup' = r.last_cleanup
           /\ appended' = History(r.conversations,
                                  [appended EXCEPT ![s] = Append(@, message)])
    /\ response' = ReturnedNone
    /\ request' = [op |-> "add_message", session_id |-> s]
    /\ UNCHANGED <<max_messages_per_conversation, now>>
    /\ UNCHANGED <<cache, used, dropped, replaced, awaiting, arrivals>>

\* GET /chat/session/{session_id}
get_session_history(s) ==
    /\ LET r == get_conversation(conversations, s, now)
       IN  /\ conversations' = r.conversations
           /\ response' = Ok([session_id |-> s,
                              messages |-> r.result,
                              message_count |-> Len(r.result)])
    /\ request' = [op |-> "get_session_history", session_id |-> s]
    /\ UNCHANGED <<last_cleanup, max_messages_per_conversation, now, appended>>
    /\ UNCHANGED <<cache, used, dropped, replaced, awaiting, arrivals>>

\* DELETE /chat/session/{session_id}
clear_session(s) ==
    /\ conversations' = clear_conversation(conversations, s)
    /\ appended' = History(conversations', appended)
    /\ response' = Ok([session_id |-> s,
                       message |-> "Conversation memory cleared",
                       timestamp |-> now])
    /\ request' = [op |-> "clear_session", session_id |-> s]
    /\ UNCHANGED <<last_cleanup, max_messages_per_conversation, now>>
    /\ UNCHANGED <<cache, used, dropped, replaced, awaiting, arrivals>>

\* GET /chat/session/{session_id}/summary
\* a summary that counts as activity: the read refreshes the session's
\* last_activity, as get_conversation does
get_session_summary_Touching(s) ==
    /\ LET summary == CM_get_session_summary(conversations, s)
       IN  response' = IF ~Truthy(summary)
                       THEN HTTPException(404, "Session not found")
                       ELSE Ok(summary)
    /\ conversations' =
          IF s \in DOMAIN conversations
          THEN [conversations EXCEPT ![s].last_activity = now]
          ELSE conversations
    /\ request' = [op |-> "get_session_summary", session_id |-> s]
    /\ UNCHANGED <<last_cleanup, max_messages_per_conversation, now, appended>>
    /\ UNCHANGED <<cache, used, dropped, replaced, awaiting, arrivals>>

get_session_summary(s) ==
    /\ LET summary == CM_get_session_summary(conversations, s)
       IN  response' = IF ~Truthy(summary)
                       THEN HTTPException(404, "Session not found")
                       ELSE Ok(summary)
    /\ request' = [op |-> "get_session_summary", session_id |-> s]
    /\ UNCHANGED <<conversations, last_cleanup, max_messages_per_conversation,
                   now, appended>>
    /\ UNCHANGED <<cache, used, dropped, replaced, awaiting, arrivals>>

\* GET /chat/session/{session_id}/order
get_order_context(s) ==
    /\ LET order_context == CM_get_order_context(conversations, s)
       IN  response' = IF ~Truthy(order_context)
                       THEN HTTPException(404, "Session not found")
                       ELSE Ok([session_id |-> s,
                                order_context |-> order_context])
    /\ request' = [op |-> "get_order_context", session_id |-> s]
    /\ UNCHANGED <<conversations, last_cleanup, max_messages_per_conversation,
                   now, appended>>
    /\ UNCHANGED <<cache, used, dropped, replaced, awaiting, arrivals>>

\* POST /chat/session/{session_id}/order/update
update_order_context(s, updates) ==
    /\ conversations' = CM_update_order_context(conversations, s, updates, now)
    /\ response' = Ok([session_id |-> s,
                       message |-> "Order context updated",
                       order_context |-> CM_get_order_context(conversations', s)])
    /\ request' = [op |-> "update_order_context", session_id |-> s,
                   updates |-> updates]
    /\ UNCHANGED <<last_cleanup, max_messages_per_conversation, now, appended>>
    /\ UNCHANGED <<cache, used, dropped, replaced, awaiting, arrivals>>

\* POST /chat/session/{session_id}/order/add
add_order_item(s, item) ==
    /\ conversations' = add_to_order(conversations, s, item, now)
    /\ response' = Ok([session_id |-> s,
                       message |-> "Item added to order",
                       order_context |-> CM_get_order_context(conversations', s)])
    /\ request' = [op |-> "add_order_item", session_id |-> s, item |-> item]
    /\ UNCHANGED <<last_cleanup, max_messages_per_conversation, now, appended>>
    /\ UNCHANGED <<cache, used, dropped, replaced, awaiting, arrivals>>

\* AddOrderItem: the add endpoint, explored while the orders hold fewer
\* than limit items
AddOrderItem(s, item, limit) ==
    /\ TotalOrdered < limit
    /\ add_order_item(s, item)

\* DELETE /chat/session/{session_id}/order/remove/{item_index}
remove_order_item(s, item_index) ==
    /\ LET r == remove_from_order(conversations, s, item_index, now)
       IN  /\ conversations' = r.conversations
           /\ response' =
                 IF r.result = NoneDict
                 THEN HTTPException(404, "Item not found")
                 ELSE Ok([session_id |-> s,
                          message |-> "Item removed from order",
                          removed_item |-> r.result,
                          order_context |->
                              CM_get_order_context(r.conversations, s)])
    /\ request' = [op |-> "remove_order_item", session_id |-> s,
                   item_index |-> item_index]
    /\ UNCHANGED <<last_cleanup, max_messages_per_conversation, now, appended>>
    /\ UNCHANGED <<cache, used, dropped, replaced, awaiting, arrivals>>

\* DELETE /chat/session/{session_id}/order/clear
clear_order(s) ==
    /\ conversations' = CM_clear_order(conversations, s, now)
    /\ response' = Ok([session_id |-> s,
                       message |-> "Order cleared",
                       order_context |-> CM_get_order_context(conversations', s)])
    /\ request' = [op |-> "clear_order", session_id |-> s]
    /\ UNCHANGED <<last_cleanup, max_messages_per_conversation, now, appended>>
    /\ UNCHANGED <<cache, used, dropped, replaced, awaiting, arrivals>>

\* response_cache.get(prompt, model, max_tokens, temperature)
cache_get(prompt, model, max_tokens, temperature) ==
    /\ LET r == RC_get(cache, prompt, model, max_tokens, temperature, now)
           key == generate_key(prompt, model, max_tokens, temperature)
       IN  /\ cache' = r.cache
           /\ response' = Returned(r.result)
           /\ used' = IF r.result # NoneVal
                      THEN UsedAfter(used, r.cache, key)
                      ELSE SelectSeq(used, LAMBDA x : HasKey(r.cache, x))
           /\ dropped' = KeySet(cache) \ KeySet(r.cache)
           /\ replaced' = FALSE
    /\ request' = [op |-> "cache_get", prompt |-> prompt, model |-> model,
                   max_tokens |-> max_tokens, temperature |-> temperature]
    /\ UNCHANGED <<conversations, last_cleanup, max_messages_per_conversation,
                   now, appended, awaiting, arrivals>>

\* response_cache.set(prompt, model, max_tokens, temperature, response)
cache_set(prompt, model, max_tokens, temperature, resp) ==
    /\ cache' = RC_set(cache, prompt, model, max_tokens, temperature, resp, now)
    /\ used' = UsedAfter(used, cache',
                         generate_key(prompt, model, max_tokens, temperature))
    /\ dropped' = KeySet(cache) \ KeySet(cache')
    /\ replaced' = HasKey(cache, generate_key(prompt, model, max_tokens,
                                              temperature))
    /\ response' = ReturnedNone
    /\ request' = [op |-> "cache_set", prompt |-> prompt, model |-> model,
                   max_tokens |-> max_tokens, temperature |-> temperature,
                   response |-> resp]
    /\ UNCHANGED <<conversations, last_cleanup, max_messages_per_conversation,
                   now, appended, awaiting, arrivals>>

\* the two appends of one chat turn: the prompt, then the reply
\* a turn that records the prompt and leaves out the assistant message
chat_turn_UserOnly(convs, lc, cap, s, prompt, text, t) ==
    add_message(convs, lc, cap, s, "user", prompt, t)

chat_turn(convs, lc, cap, s, prompt, text, t) ==
    LET first == add_message(convs, lc, cap, s, "user", prompt, t)
    IN  add_message(first.conversations, first.last_cleanup, cap, s,
                    "assistant", text, t)

\* the messages chat_turn appends
TurnMessages(prompt, text, t) ==
    << [role |-> "user", content |-> prompt, timestamp |-> t],
       [role |-> "assistant", content |-> text, timestamp |-> t] >>

\* ChatResponse(...)
ChatResponse(text, r, tokens_used, cached, convs) ==
    Ok([response |-> text,
        model_used |-> r.model,
        tokens_used |-> tokens_used,
        session_id |-> r.session_id,
        cached |-> cached,
        conversation_length |-> Len(convs[r.session_id].messages)])

\* the place of client c's request in the order of arrival
Arrival(arr, c) == CHOOSE i \in 1 .. Len(arr) : arr[i].client = c

\* the requests that arrived before place `upto` and address session s
\* have been overtaken by a turn appended to s
Overtaken(arr, s, upto) ==
    [i \in 1 .. Len(arr) |->
        IF i < upto /\ awaiting[arr[i].client].request.session_id = s
        THEN [arr[i] EXCEPT !.overtaken = TRUE]
        ELSE arr[i]]

\* client c's request has returned
Departed(arr, c) == SelectSeq(arr, LAMBDA e : e.client # c)

\* the chat requests in progress
InFlight == Cardinality({c \in Clients : awaiting[c] # Idle})

\* POST /chat, from the call to its return or to `await client.post(...)`:
\* r is the ChatRequest (with a session_id), c the client that sent it;
\* a call that is suspended keeps, as `before`, the store, the cache and the
\* clock reading it started from
chat_with_llm(c, r) ==
    /\ awaiting[c] = Idle
    /\ request' = [op |-> "chat_with_llm", client |-> c, chat |-> r]
    /\ IF r.model \notin FREE_MODELS
       THEN /\ response' = HTTPException(400, "Model not available")
            /\ UNCHANGED <<conversations, last_cleanup, appended, cache, used,
                           dropped, replaced, awaiting, arrivals>>
       ELSE LET s == r.session_id
                cleared == IF r.clear_memory
                           THEN clear_conversation(conversations, s)
                           ELSE conversations
                got == IF r.use_cache
                       THEN RC_get(cache, r.prompt, r.model, r.max_tokens,
                                   r.temperature, now)
                       ELSE [cache |-> cache, result |-> NoneVal]
                cached_response == got.result
                key == generate_key(r.prompt, r.model, r.max_tokens,
                                    r.temperature)
            IN  /\ cache' = got.cache
                /\ dropped' = KeySet(cache) \ KeySet(got.cache)
                /\ replaced' = FALSE
                /\ used' = IF r.use_cache /\ cached_response # NoneVal
                           THEN UsedAfter(used, got.cache, key)
                           ELSE SelectSeq(used, LAMBDA x : HasKey(got.cache, x))
                /\ IF cached_response # NoneVal /\ cached_response # ""
                   THEN LET turn == chat_turn(cleared, last_cleanup,
                                              max_messages_per_conversation,
                                              s, r.prompt, cached_response, now)
                            read == get_conversation(turn.conversations, s, now)
                        IN  /\ conversations' = read.conversations
                            /\ last_cleanup' = turn.last_cleanup
                            /\ appended' =
                                  History(read.conversations,
                                     [History(cleared, appended) EXCEPT ![s] =
                                         @ \o TurnMessages(r.prompt,
                                                           cached_response, now)])
                            /\ response' = ChatResponse(cached_response, r, 0,
                                                        TRUE, read.conversations)
                            /\ arrivals' =
                                  Overtaken(arrivals, s, Len(arrivals) + 1)
                            /\ UNCHANGED awaiting
                   ELSE LET read == get_conversation(cleared, s, now)
                        IN  /\ conversations' = read.conversations
                            /\ appended' = History(cleared, appended)
                            /\ awaiting' =
                                  [awaiting EXCEPT ![c] =
                                      [state |-> "awaiting", request |-> r,
                                       conversation_history |-> read.result,
                                       before |-> [conversations |-> conversations,
                                                   cache |-> cache,
                                                   now |-> now]]]
                            /\ arrivals' =
                                  Append(arrivals,
                                         [client |-> c, overtaken |-> FALSE])
                            /\ UNCHANGED <<last_cleanup, response>>
    /\ UNCHANGED <<max_messages_per_conversation, now>>

\* POST /chat, explored while the messages on record and the two of each
\* request in progress stay within limit
ChatRequest(c, r, limit) ==
    /\ TotalAppended + 2 * (InFlight + 1) <= limit
    /\ chat_with_llm(c, r)

\* POST /chat, from the return of `await client.post(...)` to the end
chat_with_llm_resumed(c, reply) ==
    /\ awaiting[c] # Idle
    /\ LET r == awaiting[c].request
           s == r.session_id
       IN  /\ request' = [op |-> "chat_with_llm_resumed", client |-> c,
                          chat |-> r, reply |-> reply]
           /\ awaiting' = [awaiting EXCEPT ![c] = Idle]
           /\ IF reply.kind \in {"ok", "nochoices"}
              THEN LET generated_text ==
                           IF reply.kind = "ok" THEN reply.content
                           ELSE "I'm sorry, I couldn't generate a response."
                       tokens_used ==
                           IF reply.kind = "ok" THEN reply.total_tokens ELSE 0
                       turn == chat_turn(conversations, last_cleanup,
                                         max_messages_per_conversation,
                                         s, r.prompt, generated_text, now)
                       stored == IF r.use_cache
                                 THEN RC_set(cache, r.prompt, r.model,
                                             r.max_tokens, r.temperature,
                                             generated_text, now)
                                 ELSE cache
                       key == generate_key(r.prompt, r.model, r.max_tokens,
                                           r.temperature)
                       read == get_conversation(turn.conversations, s, now)
                   IN  /\ conversations' = read.conversations
                       /\ last_cleanup' = turn.last_cleanup
                       /\ appended' =
                             History(read.conversations,
                                [appended EXCEPT ![s] =
                                    @ \o TurnMessages(r.prompt,
                                                      generated_text, now)])
                       /\ cache' = stored
                       /\ dropped' = KeySet(cache) \ KeySet(stored)
                       /\ replaced' = (r.use_cache /\ HasKey(cache, key))
                       /\ arrivals' =
                             Departed(Overtaken(arrivals, s,
                                                Arrival(arrivals, c)), c)
                       /\ used' = IF r.use_cache
                                  THEN UsedAfter(used, stored, key)
                                  ELSE used
                       /\ response' = ChatResponse(generated_text, r,
                                                   tokens_used, FALSE,
                                                   read.conversations)
              ELSE /\ response' =
                        IF reply.kind = "timeout"
                        THEN HTTPException(408, "Request timeout")
                        ELSE HTTPException(500, "Internal server error")
                   /\ arrivals' = Departed(arrivals, c)
                   /\ UNCHANGED <<conversations, last_cleanup, appended,
                                  cache, used, dropped, replaced>>
    /\ UNCHANGED <<max_messages_per_conversation, now>>

----------------------------------------------------------------------------
(* Specifications *)

\* every operation of the session store, on short histories (no more
\* appends than the cap keeps, orders one item short of MaxOrderLen) and
\* with one kind of item
Next ==
    \/ \E d \in TimeSteps : Tick(d)
    \/ \E s \in SessionIds : AppendMessage(s, "user", "hi", MaxMessagesCap)
    \/ \E s \in SessionIds : get_session_history(s)
    \/ \E s \in SessionIds : clear_session(s)
    \/ \E s \in SessionIds : get_session_summary(s)
    \/ \E s \in SessionIds : get_order_context(s)
    \/ \E s \in SessionIds, updates \in Updates : update_order_context(s, updates)
    \/ \E s \in SessionIds, item \in PricedItems :
          AddOrderItem(s, item, MaxOrderLen - 1)
    \/ \E s \in SessionIds, i \in Indices : remove_order_item(s, i)
    \/ \E s \in SessionIds : clear_order(s)

Spec == Init /\ [][Next]_vars

\* the conversation history alone: appends of any role and content, reads,
\* deletes and the sweep
NextHistory ==
    \/ \E d \in TimeSteps : Tick(d)
    \/ \E s \in SessionIds, role \in Roles, content \in Contents :
          AppendMessage(s, role, content, MaxAppends)
    \/ \E s \in SessionIds : get_session_history(s)
    \/ \E s \in SessionIds : clear_session(s)

SpecHistory == Init /\ [][NextHistory]_vars

\* the conversation history under every cap the constructor accepts
SpecAnyCap == InitAnyCap /\ [][NextHistory]_vars

\* a session that goes idle next to one that stays in use: "s2" is written
\* only at time 0, "s1" is written (and deleted) at any time
IdleSessionWrite ==
    /\ now = 0
    /\ AppendMessage("s2", "user", "hi", MaxAppends)

\* the write operations of ConversationMemory, on the session in use
WriteOther ==
    \/ AppendMessage("s1", "user", "hi", MaxAppends)
    \/ \E updates \in Updates : update_order_context("s1", updates)
    \/ \E item \in Items : AddOrderItem("s1", item, MaxOrderLen)
    \/ \E i \in Indices : remove_order_item("s1", i)
    \/ clear_order("s1")

\* a write on the session in use that changes what the store holds
WriteOtherStored ==
    /\ WriteOther
    /\ conversations' # conversations

NextIdle ==
    \/ Tick(TimeStep)
    \/ IdleSessionWrite
    \/ WriteOther
    \/ clear_session("s1")

\* time keeps advancing (to MaxTime, past the inactivity cutoff) and, for as
\* long as a write on the session in use can change the store, such writes
\* keep occurring
SpecIdle ==
    /\ Init
    /\ [][NextIdle]_vars
    /\ WF_vars(Tick(TimeStep))
    /\ WF_vars(WriteOtherStored)

\* sequences of AddOrderItem / RemoveOrderItem / ClearOrder calls on the
\* sessions that appends create (and deletes and the sweep destroy)
NextOrderOps ==
    \/ \E d \in TimeSteps : Tick(d)
    \/ \E s \in SessionIds : AppendMessage(s, "user", "hi", MaxMessagesCap)
    \/ \E s \in SessionIds : clear_session(s)
    \/ \E s \in SessionIds, item \in Items :
          AddOrderItem(s, item, MaxOrderLen)
    \/ \E s \in SessionIds, i \in Indices : remove_order_item(s, i)
    \/ \E s \in SessionIds : clear_order(s)

SpecOrderOps == Init /\ [][NextOrderOps]_vars

\* the inactivity sweep: appends, reads and deletes at clock readings that
\* lie half a sweep interval, a sweep interval and a cutoff apart
NextSweep ==
    \/ \E d \in SweepSteps : TickWithin(d, SweepTimes)
    \/ \E s \in SessionIds : AppendMessage(s, "user", "hi", MaxAppends)
    \/ \E s \in SessionIds : get_session_history(s)
    \/ \E s \in SessionIds : clear_session(s)

SpecSweep == Init /\ [][NextSweep]_vars

\* the response cache alone: gets and sets of four keys at clock readings
\* half a ttl apart
NextCache ==
    \/ \E d \in CacheSteps : TickWithin(d, CacheTimes)
    \/ \E prompt \in Prompts, max_tokens \in MaxTokens :
          cache_get(prompt, "qwen/qwen3-coder:free", max_tokens, 7)
    \/ \E prompt \in Prompts, max_tokens \in MaxTokens, resp \in Responses :
          cache_set(prompt, "qwen/qwen3-coder:free", max_tokens, 7, resp)

SpecCache == Init /\ [][NextCache]_vars

\* the ChatRequests of the concurrent runs: one session, four cache keys
ChatRequests ==
    [prompt : Prompts, model : {"qwen/qwen3-coder:free"},
     max_tokens : MaxTokens, temperature : Temperatures,
     session_id : {"s1"}, use_cache : {TRUE}, clear_memory : BOOLEAN]
    \cup
    [prompt : {"hi"}, model : {"gpt-4"},
     max_tokens : {80}, temperature : Temperatures,
     session_id : {"s1"}, use_cache : {FALSE}, clear_memory : {FALSE}]

\* the replies of the concurrent runs: one text, and the failures
ChatReplies == {reply \in UpstreamReplies :
                   reply.kind = "ok" => reply.content = "r1"}

\* concurrent chat requests: each client's request runs to its await, any
\* other client's steps come in between, then it resumes with the reply
NextChat ==
    \/ \E c \in Clients, r \in ChatRequests : ChatRequest(c, r, MaxChatAppends)
    \/ \E c \in Clients, reply \in ChatReplies :
          chat_with_llm_resumed(c, reply)

SpecChat == Init /\ [][NextChat]_vars

\* the cache key: gets and sets whose prompt and model strings contain the
\* separator of the key format or differ in case only
NextKey ==
    \/ \E prompt \in KeyPrompts, model \in KeyModels, max_tokens \in MaxTokens :
          cache_get(prompt, model, max_tokens, 7)
    \/ \E prompt \in KeyPrompts, model \in KeyModels, max_tokens \in MaxTokens :
          cache_set(prompt, model, max_tokens, 7, "r1")

SpecKey == Init /\ [][NextKey]_vars

\* the ChatRequests of two sessions that send the same prompt with the same
\* parameters, cache enabled
SharedRequests ==
    [prompt : {"hi"}, model : {"qwen/qwen3-coder:free"},
     max_tokens : {80}, temperature : Temperatures,
     session_id : SessionIds, use_cache : {TRUE}, clear_memory : {FALSE}]

\* one cache shared by the sessions: identical requests of either session,
\* every reply of the upstream call, at clock readings half a ttl apart
NextChatShared ==
    \/ \E d \in CacheSteps : TickWithin(d, CacheTimes)
    \/ \E c \in Clients, r \in SharedRequests :
          ChatRequest(c, r, MaxChatAppends)
    \/ \E c \in Clients, reply \in UpstreamReplies :
          chat_with_llm_resumed(c, reply)

SpecChatShared == Init /\ [][NextChatShared]_vars

\* the ChatRequests of the request flow: one prompt and key, with and
\* without the cache, with and without clear_memory
FlowRequests ==
    [prompt : {"hi"}, model : {"qwen/qwen3-coder:free"},
     max_tokens : {80}, temperature : Temperatures,
     session_id : {"s1"}, use_cache : BOOLEAN, clear_memory : BOOLEAN]

\* the flow of chat requests: every reply the upstream call can come back
\* with, the empty text included, at clock readings half a ttl apart
NextChatFlow ==
    \/ \E d \in CacheSteps : TickWithin(d, CacheTimes)
    \/ \E c \in Clients, r \in FlowRequests : ChatRequest(c, r, MaxChatAppends)
    \/ \E c \in Clients, reply \in UpstreamReplies :
          chat_with_llm_resumed(c, reply)

SpecChatFlow == Init /\ [][NextChatFlow]_vars

\* the chat requests of a single client, one at a time: nothing but the
\* clock moves while its upstream call is pending
NextChatAlone ==
    \/ \E d \in CacheSteps : TickWithin(d, CacheTimes)
    \/ \E r \in FlowRequests : ChatRequest("c1", r, MaxChatAppends)
    \/ \E reply \in UpstreamReplies : chat_with_llm_resumed("c1", reply)

SpecChatAlone == Init /\ [][NextChatAlone]_vars

----------------------------------------------------------------------------
(* Claims *)

\* the response of the handler that produced it
Said(r, m) == r.status = 200 /\ "message" \in DOMAIN r.body /\ r.body.message = m

\* the last n elements of seq, oldest first (n <= Len(seq))
LastN(seq, n) == [i \in 1 .. n |-> seq[Len(seq) - n + i]]

\* C1 (history bound): once more than max_messages_per_conversation
\* messages have been appended to a session, GetMessages on it returns
\* exactly the last max_messages_per_conversation of them, in the order in
\* which they were appended.
C1_HistoryBound ==
    \A s \in DOMAIN conversations :
        Len(appended[s]) > max_messages_per_conversation =>
            get_conversation(conversations, s, now).result =
                LastN(appended[s], max_messages_per_conversation)

\* GetMessages has answered for a session that received more appends than
\* the cap, and the session holds the cap's worth of messages
C1_Witness ==
    /\ request.op = "get_session_history"
    /\ request.session_id \in DOMAIN conversations
    /\ Len(appended[request.session_id]) > max_messages_per_conversation
    /\ response.body.messages =
          LastN(appended[request.session_id], max_messages_per_conversation)
    /\ Len(response.body.messages) = max_messages_per_conversation
    /\ response.body.messages[1] # response.body.messages[2]

\* the sum of the price of the items of an order, an item without a price
\* counting 0; the quantity of an item plays no part
PriceTotal(order) ==
    LET priced == [i \in 1 .. Len(order) |->
                      IF "price" \in DOMAIN order[i] THEN order[i].price ELSE 0]
        RECURSIVE Upto(_)
        Upto(n) == IF n = 0 THEN 0 ELSE priced[n] + Upto(n - 1)
    IN  Upto(Len(order))

\* C2 (order total invariant): under sequences of AddOrderItem,
\* RemoveOrderItem and ClearOrder calls, after each call the order_total of
\* every session equals the sum of price over its current_order (price
\* alone, not price times quantity).
C2_OrderTotalIsSum ==
    \A s \in DOMAIN conversations :
        conversations[s].order_context.order_total =
            PriceTotal(conversations[s].order_context.current_order)

\* a remove has succeeded and left an item with a quantity of 2 behind: the
\* total is its price, not price times quantity
C2_Witness ==
    /\ Said(response, "Item removed from order")
    /\ request.session_id \in DOMAIN conversations
    /\ LET oc == conversations[request.session_id].order_context
       IN  /\ Len(oc.current_order) = 1
           /\ oc.current_order[1].name = "pizza"
           /\ oc.current_order[1].quantity = 2
           /\ oc.order_total = 3

\* item_index names an item of the current_order of session s
InRange(s, i) ==
    0 <= i /\ i < Len(conversations[s].order_context.current_order)

\* C3 (order_total is never independently settable): in every reachable
\* state, under all store operations, UpdateOrderContext with any fields
\* included, the order_total of every session equals the sum of price over
\* its current_order.
C3_TotalNeverSettable ==
    \A s \in DOMAIN conversations :
        LET oc == conversations[s].order_context
        IN  oc.order_total = PriceTotal(oc.current_order)

\* C4 (remove bounds): RemoveOrderItem(s, i) on a session with i outside
\* [0, len(current_order)), negative i and i = len included, fails (404
\* "Item not found") and leaves current_order and order_total of the
\* session as they were.
C4_RemoveBounds ==
    [][request'.op = "remove_order_item" =>
       \A s \in DOMAIN conversations, i \in Indices :
          (remove_order_item(s, i) /\ ~InRange(s, i)) =>
              /\ response' = HTTPException(404, "Item not found")
              /\ s \in DOMAIN conversations'
              /\ conversations'[s].order_context.current_order =
                    conversations[s].order_context.current_order
              /\ conversations'[s].order_context.order_total =
                    conversations[s].order_context.order_total]_vars

\* a remove with a negative index has failed on a session that holds items
C4_Witness ==
    /\ request.op = "remove_order_item"
    /\ request.session_id \in DOMAIN conversations
    /\ request.item_index < 0
    /\ Len(conversations[request.session_id].order_context.current_order) = 2
    /\ response = HTTPException(404, "Item not found")

\* C5 (two distinguishable failures): the failure RemoveOrderItem reports
\* for a session that does not exist (NotFound) differs from the failure it
\* reports for an index out of range on a session that exists (OutOfRange):
\* a failed remove on an absent session followed by a failed remove on an
\* existing one gives two different responses.
C5_FailuresDiffer ==
    [][( /\ request.op = "remove_order_item"
         /\ request.session_id \notin DOMAIN conversations
         /\ request'.op = "remove_order_item"
         /\ request'.session_id \in DOMAIN conversations
         /\ response'.status # 200 )
       => response' # response]_vars

\* C6 (update creates the session): after UpdateOrderContext on any session
\* ID, also one that did not exist, the session exists and GetOrderContext
\* on that ID finds it with the written fields.
C6_UpdateCreatesSession ==
    request.op = "update_order_context" =>
        LET oc == CM_get_order_context(conversations, request.session_id)
        IN  /\ request.session_id \in DOMAIN conversations
            /\ Truthy(oc)
            /\ \A k \in DOMAIN request.updates : oc[k] = request.updates[k]

\* C7 (add creates the session): AddOrderItem on a session ID that does not
\* exist creates the session and appends the item: afterwards the session
\* exists with current_order = [item] and order_total = item.price.
C7_AddCreatesSession ==
    [][\A s \in SessionIds \ DOMAIN conversations, item \in Items :
          add_order_item(s, item) =>
              /\ s \in DOMAIN conversations'
              /\ conversations'[s].order_context.current_order = <<item>>
              /\ conversations'[s].order_context.order_total =
                    PriceTotal(<<item>>)]_vars

\* C8 (no silent no-ops): no write operation of the store
\* (UpdateOrderContext, AddOrderItem, RemoveOrderItem, ClearOrder) called
\* for a session that does not exist returns a success-shaped result while
\* it leaves the store unchanged.
C8_NoSilentNoOp ==
    [][\A s \in SessionIds \ DOMAIN conversations :
          ( \/ \E updates \in Updates : update_order_context(s, updates)
            \/ \E item \in Items : add_order_item(s, item)
            \/ \E i \in Indices : remove_order_item(s, i)
            \/ clear_order(s) )
          => ~(response'.status = 200 /\ conversations' = conversations)]_vars

\* C9 (shallow merge): UpdateOrderContext on an existing session gives every
\* order-context field present in the input the input's value and leaves
\* every absent field as it was; messages, created_at and metadata of the
\* session, and every other session, are unchanged.
C9_ShallowMerge ==
    [][request'.op = "update_order_context" =>
       \A s \in DOMAIN conversations, updates \in Updates :
          update_order_context(s, updates) =>
              /\ DOMAIN conversations' = DOMAIN conversations
              /\ DOMAIN conversations'[s].order_context =
                    DOMAIN conversations[s].order_context \cup DOMAIN updates
              /\ \A k \in DOMAIN conversations'[s].order_context :
                    conversations'[s].order_context[k] =
                        IF k \in DOMAIN updates THEN updates[k]
                        ELSE conversations[s].order_context[k]
              /\ conversations'[s].messages = conversations[s].messages
              /\ conversations'[s].created_at = conversations[s].created_at
              /\ conversations'[s].metadata = conversations[s].metadata
              /\ \A x \in DOMAIN conversations \ {s} :
                    conversations'[x] = conversations[x]]_vars

\* an update of the address and the total has been merged into a context
\* that held a customer name and an item: name and item are still there
C9_Witness ==
    /\ request.op = "update_order_context"
    /\ request.session_id \in DOMAIN conversations
    /\ DOMAIN request.updates = {"delivery_address", "order_total"}
    /\ LET c == conversations[request.session_id]
       IN  /\ c.order_context.customer_name = "Ann"
           /\ c.order_context.delivery_address = "Elm St"
           /\ c.order_context.phone_number = NoneVal
           /\ Len(c.order_context.current_order) = 1
           /\ Len(c.messages) = 2
           /\ c.created_at < c.last_activity
           /\ response.body.order_context = c.order_context

\* C10 (GetMessages never creates): GetMessages on an absent session ID
\* returns the empty sequence and leaves the session map unchanged; on an
\* existing session it returns the messages in order and changes nothing
\* but the last_activity of that session.
C10_GetMessagesFrame ==
    [][request'.op = "get_session_history" =>
       \A s \in SessionIds :
          get_session_history(s) =>
              /\ last_cleanup' = last_cleanup
              /\ IF s \notin DOMAIN conversations
                 THEN /\ conversations' = conversations
                      /\ response'.body.messages = <<>>
                 ELSE /\ DOMAIN conversations' = DOMAIN conversations
                      /\ response'.body.messages = conversations[s].messages
                      /\ conversations'[s] =
                            [conversations[s] EXCEPT !.last_activity = now]
                      /\ \A x \in DOMAIN conversations \ {s} :
                            conversations'[x] = conversations[x]]_vars

\* GetMessages has answered with the empty sequence for a session ID that
\* is not in the store, next to a session that is
C10_Witness ==
    /\ request.op = "get_session_history"
    /\ request.session_id \notin DOMAIN conversations
    /\ DOMAIN conversations # {}
    /\ response.body.messages = <<>>
    /\ response.body.message_count = 0

\* C11 (NotFound iff absent): GetOrderContext and GetSummary answer 404
\* "Session not found" if and only if the session does not exist; for a
\* session that exists, whatever was written to its order context, both
\* return its data; GetMessages on an absent ID returns an empty valid
\* result.  (The reads leave the store as it was, so the state after the
\* call is the state the call saw.)
C11_NotFoundIffAbsent ==
    LET s == request.session_id
    IN  /\ request.op = "get_order_context" =>
              response = IF s \in DOMAIN conversations
                         THEN Ok([session_id |-> s,
                                  order_context |-> conversations[s].order_context])
                         ELSE HTTPException(404, "Session not found")
        /\ request.op = "get_session_summary" =>
              IF s \in DOMAIN conversations
              THEN /\ response.status = 200
                   /\ response.body.session_id = s
                   /\ response.body.created_at = conversations[s].created_at
                   /\ response.body.last_activity = conversations[s].last_activity
                   /\ response.body.message_count = Len(conversations[s].messages)
                   /\ response.body.order_context = conversations[s].order_context
                   /\ response.body.metadata = conversations[s].metadata
              ELSE response = HTTPException(404, "Session not found")
        /\ (request.op = "get_session_history" /\ s \notin DOMAIN conversations) =>
              /\ response.status = 200
              /\ response.body.messages = <<>>

\* GetOrderContext has returned the context of a session whose order is
\* empty and whose context was updated, while the other ID is absent
C11_Witness ==
    /\ request.op = "get_order_context"
    /\ request.session_id \in DOMAIN conversations
    /\ DOMAIN conversations # SessionIds
    /\ response.status = 200
    /\ response.body.order_context.customer_name = "Ann"
    /\ response.body.order_context.order_total = 9
    /\ response.body.order_context.current_order = <<>>

\* C12 (DeleteSession is idempotent): DeleteSession(s) is never an error;
\* after it s does not exist and every other session is as it was; on an
\* absent s it changes nothing, and a second DeleteSession(s) leaves the
\* state the first one left.
C12_DeleteIdempotent ==
    [][request'.op = "clear_session" =>
       \A s \in SessionIds :
          clear_session(s) =>
              /\ response'.status = 200
              /\ s \notin DOMAIN conversations'
              /\ DOMAIN conversations' = DOMAIN conversations \ {s}
              /\ \A x \in DOMAIN conversations' :
                    conversations'[x] = conversations[x]
              /\ s \notin DOMAIN conversations => conversations' = conversations
              /\ clear_conversation(conversations', s) = conversations'
              /\ last_cleanup' = last_cleanup]_vars

\* DeleteSession has answered for an ID that is not in the store, next to a
\* session that is untouched
C12_Witness ==
    /\ request.op = "clear_session"
    /\ request.session_id \notin DOMAIN conversations
    /\ \E x \in DOMAIN conversations : Len(conversations[x].messages) = 2
    /\ response.status = 200
    /\ response.body.message = "Conversation memory cleared"

\* a call served for session s1 leaves session s2 as it was, absent or
\* present with the same messages, order context, metadata and timestamps
Untouched(s2) ==
    /\ s2 \in DOMAIN conversations' <=> s2 \in DOMAIN conversations
    /\ s2 \in DOMAIN conversations => conversations'[s2] = conversations[s2]

\* the sweep run by this append removes s2: the gate is open and s2 has been
\* inactive for longer than the cutoff
SweptAway(s2) ==
    /\ request'.op = "add_message"
    /\ now - last_cleanup >= cleanup_interval
    /\ s2 \in DOMAIN conversations
    /\ conversations[s2].last_activity < now - cleanup_cutoff
    /\ s2 \notin DOMAIN conversations'

\* C13 as stated (session isolation): no store operation addressed to S1
\* (append, get, update/add/remove/clear order, summary, delete) changes the
\* messages, order context, metadata or timestamps of another session S2,
\* under any interleaving of the calls.
C13_Isolation ==
    [][now' = now =>
       \A s2 \in SessionIds \ {request'.session_id} : Untouched(s2)]_vars

\* C13 amended: a call addressed to S1 leaves every other session S2 as it
\* was, except that an append to S1 whose sweep runs deletes S2 when S2 has
\* been inactive for longer than the cutoff.
C13_IsolationButSweep ==
    [][now' = now =>
       \A s2 \in SessionIds \ {request'.session_id} :
          Untouched(s2) \/ SweptAway(s2)]_vars

\* an append to one session, whose sweep ran, has left the other session,
\* which holds an order, in the store
C13_Witness ==
    /\ request.op = "add_message"
    /\ last_cleanup = now /\ now > 0
    /\ \E s2 \in DOMAIN conversations \ {request.session_id} :
          conversations[s2].order_context.current_order # <<>>

\* the step is an append (the only caller of the sweep) whose sweep scans
SweepScans ==
    /\ now' = now
    /\ request'.op = "add_message"
    /\ now - last_cleanup >= 3600

\* the step is an append whose sweep returns at the gate
SweepGated ==
    /\ now' = now
    /\ request'.op = "add_message"
    /\ now - last_cleanup < 3600

\* C14 (what a sweep deletes): a sweep that executes at time now deletes
\* every session whose last_activity is older than now - 86400 and no other,
\* and leaves the survivors unchanged; a session last active at t0 survives
\* a sweep at t0 + 3600 and is removed by a sweep at t0 + 90000.
C14_SweepDeletesExpired ==
    [][SweepScans =>
       LET s == request'.session_id
       IN  /\ DOMAIN conversations' \subseteq DOMAIN conversations \cup {s}
           /\ \A x \in DOMAIN conversations \ {s} :
                 /\ x \notin DOMAIN conversations' <=>
                        conversations[x].last_activity < now - 86400
                 /\ x \in DOMAIN conversations' =>
                        conversations'[x] = conversations[x]
                 /\ conversations[x].last_activity + 3600 = now =>
                        x \in DOMAIN conversations'
                 /\ conversations[x].last_activity + 90000 = now =>
                        x \notin DOMAIN conversations'
           /\ s \in DOMAIN conversations'
           /\ conversations'[s].last_activity = now]_vars

\* a sweep has executed and a session last active 3600 seconds before it is
\* still in the store
C14_Witness ==
    /\ request.op = "add_message"
    /\ last_cleanup = now
    /\ \E x \in DOMAIN conversations \ {request.session_id} :
          conversations[x].last_activity + 3600 = now

\* C15 (sweep gating): an invocation of the sweep less than 3600 seconds
\* after the previous sweep ran (or after construction) deletes nothing and
\* does not move last_cleanup; an invocation at or after 3600 seconds scans
\* and moves last_cleanup to now.
C15_SweepGate ==
    [][/\ SweepGated =>
            /\ last_cleanup' = last_cleanup
            /\ DOMAIN conversations' =
                   DOMAIN conversations \cup {request'.session_id}
       /\ SweepScans =>
            /\ last_cleanup' = now
            /\ \A x \in DOMAIN conversations \ {request'.session_id} :
                  conversations[x].last_activity < now - 86400 =>
                      x \notin DOMAIN conversations']_vars

\* an append 1800 seconds after the last sweep has left a session in the
\* store that has been inactive for longer than the cutoff
C15_Witness ==
    /\ request.op = "add_message"
    /\ last_cleanup > 0
    /\ now - last_cleanup = 1800
    /\ conversations[request.session_id].last_activity = now
    /\ \E x \in DOMAIN conversations :
          conversations[x].last_activity < now - 86400

\* C16 (what destroys a session): a session leaves the store only by an
\* explicit DeleteSession addressed to it or by the inactivity sweep of an
\* append, which removes it when it has been inactive for longer than the
\* cutoff; no other operation removes a session, and max_conversations is
\* not enforced: a session created beyond it evicts none.
C16_OnlyDeleteOrSweep ==
    [][DOMAIN conversations' # DOMAIN conversations =>
       \A x \in DOMAIN conversations \ DOMAIN conversations' :
          \/ /\ request'.op = "clear_session"
             /\ request'.session_id = x
          \/ /\ request'.op = "add_message"
             /\ request'.session_id # x
             /\ now - last_cleanup >= 3600
             /\ conversations[x].last_activity < now - 86400]_vars

\* an append has created a session next to another one, so that the store
\* holds more sessions than max_conversations, all of them intact
C16_Witness ==
    /\ request.op = "add_message"
    /\ Cardinality(DOMAIN conversations) > max_conversations
    /\ conversations[request.session_id].created_at = now
    /\ \E x \in DOMAIN conversations \ {request.session_id} :
          /\ conversations[x].created_at < now
          /\ conversations[x].messages # <<>>

\* the key a cache call addresses, and the kind of call a step is
RequestKey(r) == generate_key(r.prompt, r.model, r.max_tokens, r.temperature)
IsGet == now' = now /\ request'.op = "cache_get"
IsSet == now' = now /\ request'.op = "cache_set"

\* C17 (cache hit): Set(k, R) stores R under k with the current time as the
\* most recently used entry; until the next Set of k the entry keeps R and
\* its timestamp as long as it is cached; and a Get(k) that finds it with
\* now - timestamp < ttl returns R and moves k to most recently used,
\* leaving the other entries in their order.
C17_HitReturnsLastSet ==
    [][/\ IsSet =>
            LET k == RequestKey(request')
            IN  /\ Len(cache') > 0
                /\ cache'[Len(cache')] =
                       [key |-> k, response |-> request'.response,
                        timestamp |-> now]
       /\ \A i \in 1 .. Len(cache) :
            (/\ ~(IsSet /\ RequestKey(request') = cache[i].key)
             /\ HasKey(cache', cache[i].key))
                => ItemOf(cache', cache[i].key) = cache[i]
       /\ IsGet =>
            LET k == RequestKey(request')
            IN  (HasKey(cache, k) /\ now - ItemOf(cache, k).timestamp < 3600) =>
                   /\ response'.result = ItemOf(cache, k).response
                   /\ cache' = Append(DelKey(cache, k), ItemOf(cache, k))]_vars

\* a Get has returned "r1" from an entry set 1800 seconds earlier and moved
\* it behind an entry that was set after it
C17_Witness ==
    /\ request.op = "cache_get"
    /\ response.result = "r1"
    /\ Len(cache) = 2
    /\ cache[2].key = RequestKey(request)
    /\ cache[2].timestamp + 1800 = now
    /\ cache[1].timestamp = now

\* C18 (cache expiry): Get(k) on an entry whose age is ttl or more returns
\* a miss and removes the entry, and only that entry; whatever Get returns
\* is the response of an entry of k younger than ttl.
C18_ExpiredIsMiss ==
    [][IsGet =>
       LET k == RequestKey(request')
       IN  /\ (HasKey(cache, k) /\ now - ItemOf(cache, k).timestamp >= 3600) =>
                 /\ response'.result = NoneVal
                 /\ cache' = DelKey(cache, k)
                 /\ Len(cache') = Len(cache) - 1
           /\ response'.result # NoneVal =>
                 /\ HasKey(cache, k)
                 /\ now - ItemOf(cache, k).timestamp < 3600
                 /\ response'.result = ItemOf(cache, k).response]_vars

\* a Get at 3600 has missed on a key and removed its entry, while the
\* entry of another key, set at 0 and as old as ttl, is still cached
C18_Witness ==
    /\ request.op = "cache_get"
    /\ response.result = NoneVal
    /\ now = 3600
    /\ dropped = {RequestKey(request)}
    /\ Len(cache) = 1
    /\ cache[1].timestamp = 0

\* C20 (LRU eviction): used lists exactly the cached keys; when a Set of a
\* key that is not cached finds the cache full (max_size >= 1), exactly one
\* entry is evicted, the one whose last Set or Get hit is the oldest, and
\* the key just set is cached.
C20_EvictsLeastRecentlyUsed ==
    [][/\ KeySet(cache') = {used'[i] : i \in 1 .. Len(used')}
       /\ (/\ IsSet
           /\ ~HasKey(cache, RequestKey(request'))
           /\ Len(cache) >= max_size
           /\ max_size >= 1) =>
              /\ HasKey(cache, used[1])
              /\ KeySet(cache') =
                    (KeySet(cache) \ {used[1]}) \cup {RequestKey(request')}
              /\ Len(cache') = Len(cache)]_vars

\* a Set at 3600 has evicted one entry and left an older one, set at 0,
\* next to the key just set
C20_Witness ==
    /\ request.op = "cache_set"
    /\ Cardinality(dropped) = 1
    /\ RequestKey(request) \notin dropped
    /\ Len(cache) = max_size
    /\ cache[Len(cache)].key = RequestKey(request)
    /\ cache[Len(cache)].timestamp = now
    /\ cache[1].timestamp = 0
    /\ now = 3600

\* C19 (cache size bound): in every state between the steps of concurrent
\* chat requests, whatever the order of their Gets and Sets, the cache holds
\* at most max_size entries and at most one entry per key.
C19_CacheBounded ==
    /\ Len(cache) <= max_size
    /\ \A i, j \in 1 .. Len(cache) : cache[i].key = cache[j].key => i = j

\* a chat request has resumed and its Set has evicted an entry from the
\* full cache while the request of another client is still awaiting
C19_Witness ==
    /\ request.op = "chat_with_llm_resumed"
    /\ Len(cache) = max_size
    /\ Cardinality(dropped) = 1
    /\ \E c \in Clients : awaiting[c] # Idle

\* C21 (Set replaces): a Set on a key that is cached stores the new value
\* with the current time as the most recently used entry, keeps the number
\* of entries and keeps every other entry, in its order.
C21_SetReplaces ==
    [][(IsSet /\ HasKey(cache, RequestKey(request'))) =>
       LET k == RequestKey(request')
       IN  /\ Len(cache') = Len(cache)
           /\ cache'[Len(cache')] =
                  [key |-> k, response |-> request'.response, timestamp |-> now]
           /\ SubSeq(cache', 1, Len(cache') - 1) = DelKey(cache, k)
           /\ KeySet(cache') = KeySet(cache)]_vars

\* a Set has replaced the value and the timestamp of the least recently
\* used of two entries and moved it behind the other
C21_Witness ==
    /\ request.op = "cache_set"
    /\ replaced
    /\ dropped = {}
    /\ Len(cache) = 2
    /\ cache[2].key = RequestKey(request)
    /\ cache[2].response = "r2"
    /\ cache[2].timestamp = now
    /\ cache[1].timestamp = 1800
    /\ now = 3600
    /\ Len(used) = 2 /\ used[2] = RequestKey(request)

\* the (prompt, model, max_tokens, temperature) of a cache call
RequestTuple(r) == <<r.prompt, r.model, r.max_tokens, r.temperature>>
KeyTuples == KeyPrompts \X KeyModels \X MaxTokens \X Temperatures

\* C22 (the key distinguishes tuples): the key under which a Set has stored
\* its entry is the key of its own (prompt, model, max_tokens, temperature)
\* and of no other tuple, whether or not the strings contain ":", and
\* without folding of case.
C22_KeyDistinguishesTuples ==
    (request.op = "cache_set" /\ Len(cache) > 0) =>
        \A t \in KeyTuples :
            generate_key(t[1], t[2], t[3], t[4]) = cache[Len(cache)].key
                <=> t = RequestTuple(request)

\* the item is in the cache d as it is
Cached(d, e) == HasKey(d, e.key) /\ ItemOf(d, e.key) = e

\* C23 (what removes an entry): an entry leaves the cache only when a Set
\* of its key replaces it, when a Get of its key finds it as old as ttl or
\* older, or when it is the least recently used entry and a Set of a key
\* that is not cached finds the cache full; the cache counts as full with
\* its expired entries, which stay until then.
C23_RemovalCauses ==
    [][/\ \A i \in 1 .. Len(cache) :
            ~Cached(cache', cache[i]) =>
                \/ IsSet /\ RequestKey(request') = cache[i].key
                \/ /\ IsGet
                   /\ RequestKey(request') = cache[i].key
                   /\ now - cache[i].timestamp >= 3600
                \/ /\ IsSet
                   /\ ~HasKey(cache, RequestKey(request'))
                   /\ Len(cache) >= max_size
                   /\ i = 1
       /\ (/\ IsSet
           /\ ~HasKey(cache, RequestKey(request'))
           /\ Len(cache) >= max_size
           /\ max_size >= 1) =>
              /\ ~HasKey(cache', cache[1].key)
              /\ Len(cache') = Len(cache)]_vars

\* a Set into the full cache has evicted one entry and left an entry that
\* had expired before the Set, unread since
C23_Witness ==
    /\ request.op = "cache_set"
    /\ Cardinality(dropped) = 1
    /\ Len(cache) = max_size
    /\ \E i \in 1 .. Len(cache) :
          /\ now - cache[i].timestamp >= 3600
          /\ cache[i].key # RequestKey(request)

\* C24 (mutations of a session are serialized in arrival order): when the
\* turn of a chat request is appended to its session, no request that
\* arrived after it has appended a turn to that session before it, so the
\* messages of concurrent requests stand in the history in the order in
\* which the requests arrived.
C24_ArrivalOrder ==
    [][\A c \in Clients :
          (/\ awaiting[c] # Idle
           /\ awaiting'[c] = Idle
           /\ request'.reply.kind \in {"ok", "nochoices"})
              => ~arrivals[Arrival(arrivals, c)].overtaken]_vars

\* C25 (AppendMessage leaves its session in place): AppendMessage(s, role,
\* content) returns without an error, and with
\* max_messages_per_conversation >= 1 session s then exists, its last
\* message is (role, content) stamped with the call time and its
\* last_activity is the call time, also when the call runs the sweep and s
\* had been inactive for longer than the cutoff.
C25_AppendKeepsSession ==
    [][request'.op = "add_message" =>
       \A s \in SessionIds, role \in Roles, content \in Contents :
          (AppendMessage(s, role, content, MaxAppends)
              /\ max_messages_per_conversation >= 1) =>
                 /\ response' = ReturnedNone
                 /\ s \in DOMAIN conversations'
                 /\ Len(conversations'[s].messages) >= 1
                 /\ conversations'[s].messages[Len(conversations'[s].messages)] =
                        [role |-> role, content |-> content, timestamp |-> now]
                 /\ conversations'[s].last_activity = now]_vars

\* an append has run the sweep at 90000 on a session created at 0 and not
\* active since, and the session is in the store with the new message
C25_Witness ==
    /\ request.op = "add_message"
    /\ now = 90000
    /\ last_cleanup = now
    /\ request.session_id \in DOMAIN conversations
    /\ LET c == conversations[request.session_id]
       IN  /\ c.created_at = 0
           /\ c.last_activity = now
           /\ Len(c.messages) = 2
           /\ c.messages[1].timestamp = 0
           /\ c.messages[2].timestamp = now

\* C26 (RemoveOrderItem removes position i): on an existing session and
\* with 0 <= i < len(current_order), RemoveOrderItem(s, i) returns the item
\* that was at position i and leaves current_order as it was without that
\* position, the other items in their order.
C26_RemoveAtIndex ==
    [][(request'.op = "remove_order_item" /\ now' = now) =>
       LET s == request'.session_id
           i == request'.item_index
       IN  s \in DOMAIN conversations =>
              LET order == conversations[s].order_context.current_order
              IN  (0 <= i /\ i < Len(order)) =>
                     /\ response'.status = 200
                     /\ response'.body.removed_item = order[i + 1]
                     /\ conversations'[s].order_context.current_order =
                            [j \in 1 .. Len(order) - 1 |->
                                IF j <= i THEN order[j] ELSE order[j + 1]]]_vars

\* the first of two different items has been removed and returned, the
\* second is what is left
C26_Witness ==
    /\ request.op = "remove_order_item"
    /\ request.item_index = 0
    /\ response.status = 200
    /\ response.body.removed_item.name = "pizza"
    /\ Len(response.body.order_context.current_order) = 1
    /\ response.body.order_context.current_order[1].name = "wings"

\* C27 (frame of ClearOrder): on an existing session ClearOrder sets
\* current_order to empty, order_total to zero and last_activity to the
\* call time and leaves the messages, the metadata, created_at and the
\* other fields of the order context as they were.
C27_ClearOrderFrame ==
    [][(request'.op = "clear_order" /\ now' = now) =>
       LET s == request'.session_id
       IN  s \in DOMAIN conversations =>
              /\ s \in DOMAIN conversations'
              /\ conversations'[s].order_context.current_order = <<>>
              /\ conversations'[s].order_context.order_total = 0
              /\ conversations'[s].last_activity = now
              /\ conversations'[s].messages = conversations[s].messages
              /\ conversations'[s].metadata = conversations[s].metadata
              /\ conversations'[s].created_at = conversations[s].created_at
              /\ DOMAIN conversations'[s].order_context =
                    DOMAIN conversations[s].order_context
              /\ \A k \in DOMAIN conversations[s].order_context
                           \ {"current_order", "order_total"} :
                    conversations'[s].order_context[k] =
                       conversations[s].order_context[k]]_vars

\* ClearOrder has emptied the order of a session whose context holds a
\* customer name written before
C27_Witness ==
    /\ request.op = "clear_order"
    /\ request.session_id \in DOMAIN conversations
    /\ response.status = 200
    /\ response.body.order_context.current_order = <<>>
    /\ response.body.order_context.order_total = 0
    /\ response.body.order_context.customer_name = "Ann"
    /\ conversations[request.session_id].messages # <<>>

\* the key of a ChatRequest, and whether the cache holds an entry of it
\* that is younger than ttl
ChatKey(r) == generate_key(r.prompt, r.model, r.max_tokens, r.temperature)
Fresh(r) == HasKey(cache, ChatKey(r)) /\ now - ItemOf(cache, ChatKey(r)).timestamp < ttl

\* the last two messages on record for session s are this turn
LastTurnIs(hist, s, prompt, text, t) ==
    /\ Len(hist[s]) >= 2
    /\ SubSeq(hist[s], Len(hist[s]) - 1, Len(hist[s])) = TurnMessages(prompt, text, t)

\* C28 (request flow): a chat request with caching enabled whose key has an
\* unexpired entry appends the prompt and the cached response to its
\* session, answers with the cached response and makes no upstream call;
\* one without such an entry makes the upstream call, and when that call
\* succeeds the prompt and the generated response are appended to the
\* session and the response is stored in the cache under the request's
\* key.
C28_RequestFlow ==
    [][/\ (request'.op = "chat_with_llm" /\ now' = now
             /\ request'.chat.use_cache) =>
            LET r == request'.chat
                c == request'.client
            IN  IF Fresh(r)
                THEN /\ awaiting' = awaiting
                     /\ LastTurnIs(appended', r.session_id, r.prompt,
                                   ItemOf(cache, ChatKey(r)).response, now)
                     /\ response'.status = 200
                     /\ response'.body.cached
                     /\ response'.body.response =
                            ItemOf(cache, ChatKey(r)).response
                ELSE /\ awaiting'[c] # Idle
                     /\ awaiting'[c].request = r
       /\ (request'.op = "chat_with_llm_resumed" /\ now' = now
             /\ request'.reply.kind = "ok"
             /\ request'.chat.use_cache) =>
            LET r == request'.chat
            IN  /\ LastTurnIs(appended', r.session_id, r.prompt,
                              request'.reply.content, now)
                /\ Len(cache') > 0
                /\ cache'[Len(cache')] =
                       [key |-> ChatKey(r), response |-> request'.reply.content,
                        timestamp |-> now]]_vars

\* C30 (history length, every configuration): whatever cap the store was
\* constructed with, 0 included, no session ever holds more messages than
\* the cap.
C30_HistoryLengthAnyCap ==
    \A s \in DOMAIN conversations :
        Len(conversations[s].messages) <= max_messages_per_conversation

\* C29 (eventual removal of inactive sessions): a session that receives no
\* further operation, while time keeps advancing and write operations on
\* another session keep occurring, is eventually deleted by a sweep: with
\* "s2" idle from time 0 on and "s1" stored and written to again and again,
\* "s2" does not stay for ever (unless "s1" itself is deleted).
C29_EventuallySwept ==
    ("s2" \in DOMAIN conversations /\ "s1" \in DOMAIN conversations)
        ~> ("s2" \notin DOMAIN conversations \/ "s1" \notin DOMAIN conversations)

\* C31 (Get refreshes recency only): a Get changes no stored value and no
\* timestamp: every entry cached after it was cached before it with the
\* same response and the same timestamp, a hit leaves the set of entries as
\* it was, and an entry whose timestamp (the time of the last Set of its
\* key) is ttl or more in the past is a miss however it was read before.
C31_GetKeepsTimestamps ==
    [][IsGet =>
       LET k == RequestKey(request')
       IN  /\ \A i \in 1 .. Len(cache') : Cached(cache, cache'[i])
           /\ response'.result # NoneVal =>
                 /\ \A i \in 1 .. Len(cache) : Cached(cache', cache[i])
                 /\ ItemOf(cache', k) = ItemOf(cache, k)
           /\ (HasKey(cache, k) /\ now >= ItemOf(cache, k).timestamp + ttl) =>
                 /\ response'.result = NoneVal
                 /\ ~HasKey(cache', k)]_vars

\* a Get at 1800 has hit an entry set at 0: the entry is now the most
\* recently used one, behind another entry set at 0, and still carries
\* timestamp 0
C31_Witness ==
    /\ request.op = "cache_get"
    /\ response.result = "r2"
    /\ now = 1800
    /\ Len(cache) = 2
    /\ cache[2].key = RequestKey(request)
    /\ cache[2].timestamp = 0
    /\ cache[1].timestamp = 0
    /\ used[Len(used)] = cache[2].key

\* C32 (every unexpired entry is served): a chat request with caching
\* enabled whose key has an entry younger than ttl, whatever response the
\* entry stores (the empty string included), is answered with that
\* response and cached = true, and no upstream call is made for it.
C32_FreshEntryServed ==
    [][(/\ request'.op = "chat_with_llm"
        /\ now' = now
        /\ request'.chat.use_cache
        /\ Fresh(request'.chat)) =>
           /\ awaiting'[request'.client] = Idle
           /\ response'.status = 200
           /\ response'.body.cached
           /\ response'.body.response =
                  ItemOf(cache, ChatKey(request'.chat)).response]_vars

\* the texts a chat request can be answered with
ChatTexts ==
    {reply.content : reply \in {x \in UpstreamReplies : x.kind = "ok"}}
        \cup {"I'm sorry, I couldn't generate a response."}

\* request r sent by client c from this state has this outcome: a hit
\* answered with text, or a miss
OutcomeFor(c, r, hit, text) ==
    ENABLED (/\ chat_with_llm(c, r)
             /\ (awaiting'[c] = Idle) = hit
             /\ hit => (response'.body.cached /\ response'.body.response = text))

\* session s has a turn on record whose response is what this entry stores
GeneratedIn(s, prompt, entry) ==
    \E i \in 1 .. Len(appended[s]) - 1 :
        SubSeq(appended[s], i, i + 1) =
            TurnMessages(prompt, entry.response, entry.timestamp)

\* C33 (the cache lookup does not depend on the session): a chat request
\* with caching enabled has the same hit/miss outcome and the same cached
\* text as the same request sent for any other session from the same
\* state; so when the cache holds an entry younger than ttl for the
\* request's key whose response was generated in another session, the
\* request is answered with that response from the cache.
C33_LookupIgnoresSession ==
    [][(/\ request'.op = "chat_with_llm"
        /\ now' = now
        /\ request'.chat.use_cache) =>
           LET r == request'.chat
               c == request'.client
           IN  /\ \A c2 \in Clients, r2 \in SharedRequests, hit \in BOOLEAN,
                     text \in ChatTexts :
                     (/\ c2 = c
                      /\ [r2 EXCEPT !.session_id = r.session_id] = r
                      /\ (awaiting'[c] = Idle) = hit
                      /\ hit => response'.body.response = text)
                        => OutcomeFor(c2, r2, hit, text)
               /\ (/\ Fresh(r)
                   /\ \E s \in SessionIds \ {r.session_id} :
                         GeneratedIn(s, r.prompt, ItemOf(cache, ChatKey(r)))) =>
                     /\ awaiting'[c] = Idle
                     /\ response'.body.cached
                     /\ response'.body.response =
                            ItemOf(cache, ChatKey(r)).response]_vars

\* a sequence of user/assistant pairs, starting with a user message, the
\* two messages of a pair appended at the same time
Paired(messages) ==
    /\ Len(messages) % 2 = 0
    /\ \A i \in 1 .. Len(messages) :
          IF i % 2 = 1
          THEN /\ messages[i].role = "user"
               /\ messages[i + 1].role = "assistant"
               /\ messages[i + 1].timestamp = messages[i].timestamp
          ELSE messages[i].role = "assistant"

\* C34 (turn atomicity): however concurrent chat requests on a session
\* interleave at their upstream calls, a request appends its user message
\* and its assistant message back to back, nothing of another request in
\* between; so between the steps of the handlers the history of every
\* session (with an even cap) is a sequence of user/assistant pairs
\* starting with a user message.
C34_TurnsAreAtomic ==
    [][/\ max_messages_per_conversation % 2 = 0 =>
            \A s \in DOMAIN conversations' :
                Paired(conversations'[s].messages)
       /\ \A s \in SessionIds :
            appended'[s] # appended[s] =>
               \/ appended'[s] = <<>>
               \/ /\ request'.chat.session_id = s
                  /\ \E text \in ChatTexts :
                        LET turn == TurnMessages(request'.chat.prompt, text, now)
                        IN  appended'[s] \in {appended[s] \o turn, turn}]_vars

\* client c2's turn has been appended to session "s1" while client c1,
\* which read the empty history of "s1" before, still awaits its reply
C34_Witness ==
    /\ request.op = "chat_with_llm_resumed"
    /\ request.client = "c2"
    /\ awaiting["c1"] # Idle
    /\ awaiting["c1"].request.session_id = "s1"
    /\ awaiting["c1"].conversation_history = <<>>
    /\ "s1" \in DOMAIN conversations
    /\ Len(conversations["s1"].messages) = 2
    /\ Len(appended["s1"]) = 2

\* the upstream call of a chat request that did not ask for clear_memory
\* has failed
UpstreamFailed ==
    /\ request'.op = "chat_with_llm_resumed"
    /\ now' = now
    /\ awaiting[request'.client] # Idle
    /\ ~request'.chat.clear_memory
    /\ request'.reply.kind \notin {"ok", "nochoices"}

\* C35 (failed upstream call, as claimed): a chat request that did not ask
\* for clear_memory and whose upstream call fails leaves the session store
\* and the response cache exactly as they were before the request.
C35_FailureChangesNothing ==
    [][UpstreamFailed =>
          LET before == awaiting[request'.client].before
          IN  /\ conversations' = before.conversations
              /\ cache' = before.cache]_vars

\* C35 (failed upstream call, amended): such a request appends no message,
\* creates no session, changes no order and writes no cache entry, and it
\* answers 408 or 500; what it does change is the lastActivity of its
\* session when the session exists (the history is read before the call)
\* and what the cache lookup itself does to the entry of the request's
\* key: an expired entry is removed, an entry that is read becomes the most
\* recently used.
C35_FailureWritesNothing ==
    [][UpstreamFailed =>
          LET before == awaiting[request'.client].before
              r == request'.chat
              k == ChatKey(r)
          IN  /\ DOMAIN conversations' = DOMAIN before.conversations
              /\ \A x \in DOMAIN conversations' :
                    conversations'[x] =
                        IF x = r.session_id
                        THEN [before.conversations[x] EXCEPT
                                 !.last_activity = before.now]
                        ELSE before.conversations[x]
              /\ appended' = appended
              /\ \A i \in 1 .. Len(cache') : Cached(before.cache, cache'[i])
              /\ \A i \in 1 .. Len(before.cache) :
                    \/ Cached(cache', before.cache[i])
                    \/ /\ r.use_cache
                       /\ before.cache[i].key = k
                       /\ before.now - before.cache[i].timestamp >= ttl
              /\ SelectSeq(cache', LAMBDA e : e.key # k) =
                     SelectSeq(before.cache, LAMBDA e : e.key # k)
              /\ response'.status \in {408, 500}]_vars

\* a request for session "s1", which held one turn, has timed out: the
\* turn is still the whole history, and the session's lastActivity is
\* later than the turn
C35_Witness ==
    /\ request.op = "chat_with_llm_resumed"
    /\ ~request.chat.clear_memory
    /\ request.reply.kind = "timeout"
    /\ response.status = 408
    /\ "s1" \in DOMAIN conversations
    /\ Len(conversations["s1"].messages) = 2
    /\ conversations["s1"].messages[2].timestamp < conversations["s1"].last_activity

\* C36 (GetOrderContext and GetSummary are pure reads): the two reads
\* change nothing of the store, of the sweep time or of the cache, not even
\* the lastActivity of the session they read; so when the next call is an
\* AppendMessage on another session whose sweep runs, the session that was
\* read is deleted if its lastActivity is older than the cutoff.
C36_ReadsArePure ==
    [][/\ request'.op \in {"get_order_context", "get_session_summary"} =>
            /\ conversations' = conversations
            /\ last_cleanup' = last_cleanup
            /\ cache' = cache
            /\ appended' = appended
       /\ (/\ request.op \in {"get_order_context", "get_session_summary"}
           /\ request'.op = "add_message"
           /\ request'.session_id # request.session_id
           /\ now' = now
           /\ now - last_cleanup >= cleanup_interval
           /\ request.session_id \in DOMAIN conversations
           /\ conversations[request.session_id].last_activity
                  < now - cleanup_cutoff) =>
             request.session_id \notin DOMAIN conversations']_vars

\* GetSummary at 90000 has returned the summary of a session last active
\* at 0: the session is still stored, its lastActivity still 0
C36_Witness ==
    /\ request.op = "get_session_summary"
    /\ now = TimeStep
    /\ request.session_id \in DOMAIN conversations
    /\ response.status = 200
    /\ response.body.last_activity = 0
    /\ conversations[request.session_id].last_activity = 0
    /\ last_cleanup = 0

\* the order writes and the reads of the session store
OrderWritesAndReads ==
    {"update_order_context", "add_order_item", "remove_order_item",
     "clear_order", "get_session_history", "get_order_context",
     "get_session_summary"}

\* C37 (the sweep runs from AppendMessage only): UpdateOrderContext,
\* AddOrderItem, RemoveOrderItem, ClearOrder and the reads delete no
\* session and leave the time of the last sweep as it was, however long
\* ago that sweep was and however long the sessions have been inactive.
C37_SweepOnlyFromAppend ==
    [][request'.op \in OrderWritesAndReads =>
          /\ DOMAIN conversations' = DOMAIN conversations
          /\ last_cleanup' = last_cleanup]_vars

\* UpdateOrderContext at 90000 has written to one session; the last sweep
\* was at 0 and the other session, last active at 0, is still stored
C37_Witness ==
    /\ request.op = "update_order_context"
    /\ now = TimeStep
    /\ last_cleanup = 0
    /\ request.session_id \in DOMAIN conversations
    /\ conversations[request.session_id].last_activity = now
    /\ \E x \in DOMAIN conversations : conversations[x].last_activity = 0

\* C38 (timestamps): the clock never goes back; every session that exists
\* has createdAt <= lastActivity <= the clock; and over every step a session that
\* exists before and after it keeps its createdAt, and its lastActivity
\* does not decrease.
C38_TimestampsOrdered ==
    [][/\ now' >= now
       /\ \A s \in DOMAIN conversations' :
             /\ conversations'[s].created_at <= conversations'[s].last_activity
             /\ conversations'[s].last_activity <= now'
       /\ \A s \in DOMAIN conversations \cap DOMAIN conversations' :
             /\ conversations'[s].created_at = conversations[s].created_at
             /\ conversations'[s].last_activity >= conversations[s].last_activity]_vars

\* a message has been appended at 90000 to a session created at 0
C38_Witness ==
    /\ request.op = "add_message"
    /\ now = TimeStep
    /\ request.session_id \in DOMAIN conversations
    /\ conversations[request.session_id].created_at = 0
    /\ conversations[request.session_id].last_activity = now
    /\ Len(conversations[request.session_id].messages) = 2

====
